---- MODULE Spec2Model ----
(***************************************************************************)
(* Model of src/app.py: a Flask application that forwards image upload,    *)
(* list and delete requests to the Cloudinary provider.                    *)
(*                                                                         *)
(* Every request is handled independently (the handlers share no mutable   *)
(* state), so a state of the model is one request together with            *)
(* everything its handling produced: the response, the log entries         *)
(* emitted and the provider calls made, in order.                          *)
(*                                                                         *)
(* Python values are modelled as follows.                                  *)
(*   - A str the code inspects character by character (a filename) is a    *)
(*     sequence of one-character strings.                                  *)
(*   - A str the code only builds (an f-string, str(e)) is the sequence of *)
(*     its pieces, so that concatenation is \o.                            *)
(*   - A dict is a function whose DOMAIN is the set of keys present;       *)
(*     d[k] on an absent key raises KeyError, d.get(k, v) yields v.        *)
(*   - An exception is a record [type, args].                              *)
(***************************************************************************)
EXTENDS Integers, Sequences, FiniteSets, TLC

VARIABLES request, provider, response, log, calls

vars == <<request, provider, response, log, calls>>

(***************************************************************************)
(* Bounds of the model.                                                    *)
(***************************************************************************)
\* Longest filename generated over Alphabet.
MaxNameLen == 5
\* Largest number of resources the provider returns to a listing.
MaxResources == 2

(***************************************************************************)
(* Python str helpers.                                                     *)
(***************************************************************************)
Upper == <<"A","B","C","D","E","F","G","H","I","J","K","L","M",
           "N","O","P","Q","R","S","T","U","V","W","X","Y","Z">>

Lower == <<"a","b","c","d","e","f","g","h","i","j","k","l","m",
           "n","o","p","q","r","s","t","u","v","w","x","y","z">>

\* str.lower() on one character.
lower_char(c) ==
    IF \E i \in 1..Len(Upper) : Upper[i] = c
    THEN Lower[CHOOSE i \in 1..Len(Upper) : Upper[i] = c]
    ELSE c

\* str.lower()
lower(s) == [i \in 1..Len(s) |-> lower_char(s[i])]

\* sep in s
contains(s, sep) == \E i \in 1..Len(s) : s[i] = sep

\* s.rsplit(sep, 1): split once, at the rightmost occurrence of sep.
rsplit1(s, sep) ==
    IF ~contains(s, sep) THEN <<s>>
    ELSE LET Occ == {i \in 1..Len(s) : s[i] = sep}
             last == CHOOSE i \in Occ : \A j \in Occ : j <= i
         IN  <<SubSeq(s, 1, last - 1), SubSeq(s, last + 1, Len(s))>>

\* d.get(k, default)
get(d, k, default) == IF k \in DOMAIN d THEN d[k] ELSE default

(***************************************************************************)
(* Exceptions and str(e).                                                  *)
(***************************************************************************)
KeyError(k) == [type |-> "KeyError", args |-> <<k>>]

\* werkzeug.exceptions.RequestEntityTooLarge, raised by the access to
\* request.files when the body exceeds MAX_CONTENT_LENGTH.
RequestEntityTooLarge ==
    [type |-> "RequestEntityTooLarge",
     args |-> <<"The data value transmitted exceeds the capacity limit.">>]

\* str(e): KeyError shows the repr of the key, an HTTPException shows
\* "<code> <name>: <description>", any other exception shows its message.
str(e) ==
    CASE e.type = "KeyError" -> <<"'", e.args[1], "'">>
      [] e.type = "RequestEntityTooLarge" ->
             <<"413 Request Entity Too Large: ", e.args[1]>>
      [] OTHER -> <<e.args[1]>>

(***************************************************************************)
(* Configuration.                                                          *)
(***************************************************************************)
MAX_CONTENT_LENGTH == 16 * 1024 * 1024

ALLOWED_EXTENSIONS ==
    { <<"p","n","g">>, <<"j","p","g">>, <<"j","p","e","g">>,
      <<"g","i","f">>, <<"w","e","b","p">> }

allowed_file_any_extension(filename) == contains(filename, ".")

allowed_file(filename) ==
    /\ contains(filename, ".")
    /\ lower(rsplit1(filename, ".")[2]) \in ALLOWED_EXTENSIONS

(***************************************************************************)
(* Responses.  What a handler produces: the response, the log entries it   *)
(* emitted and the provider calls it made.                                 *)
(***************************************************************************)
\* jsonify(body), status
jsonify(body, status) == [status |-> status, mimetype |-> "application/json", body |-> body]

\* a response that is an HTML page
html(page, status) == [status |-> status, mimetype |-> "text/html", body |-> [page |-> page]]

info(msg) == [level |-> "INFO", msg |-> msg]

error(msg) == [level |-> "ERROR", msg |-> msg]

Outcome(resp, lg, cs) == [response |-> resp, log |-> lg, calls |-> cs]

(***************************************************************************)
(* The provider (Cloudinary).  It is an opaque remote service: each call   *)
(* either raises or returns a dict, and the dict may lack any key.         *)
(***************************************************************************)
Error(msg) == [type |-> "cloudinary.exceptions.Error", args |-> <<msg>>]

ProviderErrors == { Error("Invalid api_key"), Error("Connection timed out") }

Urls == { "https://res.cloudinary.com/demo/image/upload/capturas/a.png",
          "https://res.cloudinary.com/demo/image/upload/capturas/b.jpg" }

PublicIds == { "capturas/a", "capturas/b" }

Dates == { "2024-05-01T10:00:00Z" }

Formats == { "png" }

\* The values a key of a provider dict may carry.
ValuesOf(k) ==
    CASE k = "secure_url" -> Urls
      [] k = "public_id"  -> PublicIds
      [] k = "created_at" -> Dates
      [] k = "format"     -> Formats

\* All dicts over a subset of keys.
Dicts(keys) ==
    LET pool == UNION {ValuesOf(k) : k \in keys}
    IN  {d \in UNION {[S -> pool] : S \in SUBSET keys} :
            \A k \in DOMAIN d : d[k] \in ValuesOf(k)}

Raises(e) == [raises |-> TRUE, exc |-> e]

Returns(v) == [raises |-> FALSE, value |-> v]

\* What cloudinary.uploader.upload may do.
UploadResults == Dicts({"secure_url", "public_id", "created_at"})

UploadOutcomes ==
    {Raises(e) : e \in ProviderErrors} \cup {Returns(d) : d \in UploadResults}

\* What cloudinary.api.resources may do.
Resources == Dicts({"secure_url", "public_id", "created_at", "format"})

ResourceLists == UNION {[1..n -> Resources] : n \in 0..MaxResources}

ListOutcomes ==
    {Raises(e) : e \in ProviderErrors}
        \cup {Returns(<<>>)}
        \cup {Returns([resources |-> rs]) : rs \in ResourceLists}

\* What cloudinary.uploader.destroy may do.
DestroyStatuses == { "ok", "not found", "OK" }

DestroyOutcomes ==
    {Raises(e) : e \in ProviderErrors}
        \cup {Returns(<<>>)}
        \cup {Returns([result |-> s]) : s \in DestroyStatuses}

(***************************************************************************)
(* POST /upload                                                            *)
(***************************************************************************)
\* The provider call of lines 55-63.
upload_call(file) ==
    [op |-> "cloudinary.uploader.upload",
     file |-> file,
     folder |-> "capturas",
     resource_type |-> "auto",
     transformation |-> <<[quality |-> "auto:good"], [fetch_format |-> "auto"]>>]

upload_except_no_log(e, lg, cs) ==
    Outcome(jsonify([error |-> str(e)], 500), lg, cs)

upload_except_retry(e, lg, cs) ==
    Outcome(jsonify([error |-> str(e)], 500),
            lg \o <<error(<<"Error al subir imagen: ">> \o str(e))>>,
            cs \o cs)

\* except Exception as e (lines 74-76), entered after the log entries lg
\* and the provider calls cs.
upload_except(e, lg, cs) ==
    Outcome(jsonify([error |-> str(e)], 500),
            lg \o <<error(<<"Error al subir imagen: ">> \o str(e))>>,
            cs)

upload_success_swapped(result, cs) ==
    IF "public_id" \notin DOMAIN result
    THEN upload_except(KeyError("public_id"), <<>>, cs)
    ELSE LET lg == <<info(<<"Imagen subida exitosamente: ", result["public_id"]>>)>>
         IN  IF "secure_url" \notin DOMAIN result
             THEN upload_except(KeyError("secure_url"), lg, cs)
             ELSE IF "created_at" \notin DOMAIN result
             THEN upload_except(KeyError("created_at"), lg, cs)
             ELSE Outcome(jsonify([success |-> TRUE,
                                   url |-> result["public_id"],
                                   public_id |-> result["secure_url"],
                                   created_at |-> result["created_at"]], 200),
                          lg, cs)

\* Lines 65-72, after the provider returned result: the log entry is built
\* first (result['public_id']), then the response dict, key by key.
upload_success(result, cs) ==
    IF "public_id" \notin DOMAIN result
    THEN upload_except(KeyError("public_id"), <<>>, cs)
    ELSE LET lg == <<info(<<"Imagen subida exitosamente: ", result["public_id"]>>)>>
         IN  IF "secure_url" \notin DOMAIN result
             THEN upload_except(KeyError("secure_url"), lg, cs)
             ELSE IF "created_at" \notin DOMAIN result
             THEN upload_except(KeyError("created_at"), lg, cs)
             ELSE Outcome(jsonify([success |-> TRUE,
                                   url |-> result["secure_url"],
                                   public_id |-> result["public_id"],
                                   created_at |-> result["created_at"]], 200),
                          lg, cs)

\* The handler.  request.files parses the body on first access and raises
\* RequestEntityTooLarge, inside the try, when the body exceeds
\* MAX_CONTENT_LENGTH.
upload(req, outcome) ==
    IF req.content_length > MAX_CONTENT_LENGTH
    THEN upload_except(RequestEntityTooLarge, <<>>, <<>>)
    ELSE IF "file" \notin DOMAIN req.files
    THEN Outcome(jsonify([error |-> <<"No se encontró el archivo">>], 400), <<>>, <<>>)
    ELSE LET file == req.files["file"]
         IN  IF file.filename = <<>>
             THEN Outcome(jsonify([error |-> <<"Nombre de archivo vacío">>], 400), <<>>, <<>>)
             ELSE IF ~allowed_file(file.filename)
             THEN Outcome(jsonify([error |-> <<"Tipo de archivo no permitido">>], 400), <<>>, <<>>)
             ELSE LET cs == <<upload_call(file)>>
                  IN  IF outcome.raises
                      THEN upload_except(outcome.exc, <<>>, cs)
                      ELSE upload_success(outcome.value, cs)

(***************************************************************************)
(* GET /list                                                               *)
(***************************************************************************)
\* The provider call of lines 82-87.
list_call ==
    [op |-> "cloudinary.api.resources",
     type |-> "upload", prefix |-> "capturas", max_results |-> 100, context |-> TRUE]

\* except Exception as e (lines 102-104).
list_except(e, cs) ==
    Outcome(jsonify([error |-> str(e)], 500),
            <<error(<<"Error al listar imágenes: ">> \o str(e))>>,
            cs)

project_lenient(res) ==
    Returns([url        |-> get(res, "secure_url", ""),
             public_id  |-> get(res, "public_id", ""),
             created_at |-> get(res, "created_at", ""),
             format     |-> get(res, "format", "")])

\* The element expression of the comprehension (lines 89-94): the dict is
\* built key by key, res["secure_url"] first.
project(res) ==
    IF "secure_url" \notin DOMAIN res THEN Raises(KeyError("secure_url"))
    ELSE IF "public_id" \notin DOMAIN res THEN Raises(KeyError("public_id"))
    ELSE Returns([url        |-> res["secure_url"],
                  public_id  |-> res["public_id"],
                  created_at |-> get(res, "created_at", ""),
                  format     |-> get(res, "format", "")])

list_response_len_resources(resources, images) ==
    jsonify([success |-> TRUE, images |-> images,
             total |-> Cardinality(DOMAIN resources)], 200)

\* return jsonify({...}) (lines 96-100)
list_response(resources, images) ==
    jsonify([success |-> TRUE, images |-> images, total |-> Len(images)], 200)

\* The handler.
list_images(outcome) ==
    LET cs == <<list_call>>
    IN  IF outcome.raises THEN list_except(outcome.exc, cs)
        ELSE LET resources == outcome.value
             IN  IF "resources" \notin DOMAIN resources
                 THEN list_except(KeyError("resources"), cs)
                 ELSE LET rs == resources["resources"]
                          projected == [i \in 1..Len(rs) |-> project(rs[i])]
                          failed == {i \in 1..Len(rs) : projected[i].raises}
                      IN  IF failed # {}
                          THEN LET first == CHOOSE i \in failed : \A j \in failed : i <= j
                               IN  list_except(projected[first].exc, cs)
                          ELSE LET images == [i \in 1..Len(rs) |-> projected[i].value]
                               IN  Outcome(list_response(resources, images), <<>>, cs)

(***************************************************************************)
(* DELETE /delete/<path:public_id>                                         *)
(***************************************************************************)
\* The provider call of line 110.
destroy_call(public_id) ==
    [op |-> "cloudinary.uploader.destroy", public_id |-> public_id]

\* except Exception as e (lines 118-120).
delete_except(e, cs) ==
    Outcome(jsonify([error |-> str(e)], 500),
            <<error(<<"Error al eliminar imagen: ">> \o str(e))>>,
            cs)

delete_result_any_status(public_id, result, cs) ==
    IF "result" \in DOMAIN result
    THEN Outcome(jsonify([success |-> TRUE, message |-> <<"Imagen eliminada">>], 200),
                 <<info(<<"Imagen eliminada: ", public_id>>)>>, cs)
    ELSE Outcome(jsonify([error |-> <<"No se pudo eliminar la imagen">>], 400), <<>>, cs)

\* Lines 112-116: result.get("result") == "ok"
delete_result(public_id, result, cs) ==
    IF "result" \in DOMAIN result /\ result["result"] = "ok"
    THEN Outcome(jsonify([success |-> TRUE, message |-> <<"Imagen eliminada">>], 200),
                 <<info(<<"Imagen eliminada: ", public_id>>)>>, cs)
    ELSE Outcome(jsonify([error |-> <<"No se pudo eliminar la imagen">>], 400), <<>>, cs)

\* The handler.
delete_image(public_id, outcome) ==
    LET cs == <<destroy_call(public_id)>>
    IN  IF outcome.raises THEN delete_except(outcome.exc, cs)
        ELSE delete_result(public_id, outcome.value, cs)

(***************************************************************************)
(* Error handlers and the index page.                                      *)
(***************************************************************************)
\* @app.errorhandler(413).  No request reaches it: the only place that
\* reads a body is request.files in upload, inside the try.
request_entity_too_large(e) ==
    Outcome(jsonify([error |-> <<"El archivo es demasiado grande. Máximo 16MB">>], 413),
            <<>>, <<>>)

\* @app.errorhandler(404)
not_found(e) ==
    Outcome(jsonify([error |-> <<"Ruta no encontrada">>], 404), <<>>, <<>>)

\* @app.errorhandler(500), given the InternalServerError that wraps an
\* exception no handler caught.
internal_error(e) ==
    Outcome(jsonify([error |-> <<"Error interno del servidor">>], 500),
            <<error(<<"Error interno: ", "500 Internal Server Error: ", e.args[1]>>)>>,
            <<>>)

NotFound == [type |-> "NotFound", args |-> <<"The requested URL was not found on the server.">>]

InternalServerError ==
    [type |-> "InternalServerError",
     args |-> <<"The server encountered an internal error and was unable to complete your request.">>]

\* GET /: render_template("index.html") either renders the page or raises
\* (the view has no try), and an uncaught exception reaches the 500 handler.
index(rendered) ==
    IF rendered THEN Outcome(html("index.html", 200), <<>>, <<>>)
    ELSE internal_error(InternalServerError)

(***************************************************************************)
(* Routing: the url map built by the @app.route decorators.                *)
(***************************************************************************)
\* A path is the sequence of its segments: /delete/capturas/xyz123 is
\* <<"delete", "capturas", "xyz123">>.
url_map ==
    { [endpoint |-> "index",        prefix |-> <<>>,         methods |-> {"GET"}],
      [endpoint |-> "upload",       prefix |-> <<"upload">>, methods |-> {"POST"}],
      [endpoint |-> "list_images",  prefix |-> <<"list">>,   methods |-> {"GET"}],
      [endpoint |-> "delete_image", prefix |-> <<"delete">>, methods |-> {"DELETE"}] }

\* <path:public_id> takes one or more segments; the other rules are exact.
rule_matches(rule, path) ==
    IF rule.endpoint = "delete_image"
    THEN Len(path) >= 2 /\ path[1] = "delete"
    ELSE path = rule.prefix

\* The endpoint a request is dispatched to; a path that matches a rule
\* under another method is answered 405 by the framework, a path that
\* matches no rule 404.
dispatch(req) ==
    LET matching == {r \in url_map : rule_matches(r, req.path)}
    IN  IF matching = {} THEN "not_found"
        ELSE IF \E r \in matching : req.method \in r.methods
        THEN (CHOOSE r \in matching : req.method \in r.methods).endpoint
        ELSE "method_not_allowed"

\* The framework's answer to a method the matched rule does not allow: no
\* errorhandler(405) is registered, so the default HTML page is sent.
method_not_allowed(e) ==
    Outcome(html("405 Method Not Allowed", 405), <<>>, <<>>)

(***************************************************************************)
(* Requests.                                                               *)
(***************************************************************************)
Alphabet == { ".", "g", "i", "f", "F" }

NamedFiles ==
    { <<"p","h","o","t","o",".","J","P","G">>,
      <<"d","o","c","u","m","e","n","t",".","p","d","f">>,
      <<"s","h","o","t",".","w","e","b","p",".","e","x","e">>,
      <<"a",".","b",".","P","n","g">>,
      <<"j","p","e","g">> }

Filenames == NamedFiles \cup UNION {[1..n -> Alphabet] : n \in 0..MaxNameLen}

\* request.files: empty, or the field "file" with its filename.
Files == {<<>>} \cup {[file |-> [filename |-> f]] : f \in Filenames}

Methods == { "GET", "POST", "DELETE", "PUT" }

Paths == { <<>>, <<"upload">>, <<"list">>, <<"delete">>, <<"delete", "abc">>,
           <<"delete", "capturas", "xyz123">>, <<"favicon.ico">> }

Sizes == { 0, MAX_CONTENT_LENGTH, MAX_CONTENT_LENGTH + 1 }

\* Only a form posted to /upload carries files.
Requests ==
    { [method |-> m, path |-> p, content_length |-> n, files |-> f] :
        m \in {"POST"}, p \in {<<"upload">>}, n \in Sizes, f \in Files }
    \cup
    { [method |-> m, path |-> p, content_length |-> n, files |-> <<>>] :
        m \in Methods, p \in Paths, n \in Sizes }

(***************************************************************************)
(* The state machine.  The handlers share no mutable state and every       *)
(* request is handled on its own, so a behaviour is one request: Init is   *)
(* the application holding a request it has not answered yet, and one      *)
(* action per endpoint answers it.                                         *)
(***************************************************************************)
NoResponse == [status |-> 0, mimetype |-> "", body |-> <<>>]

Init ==
    /\ request \in Requests
    /\ provider = <<>>
    /\ response = NoResponse
    /\ log = <<>>
    /\ calls = <<>>

\* The request has not been answered yet.
Pending == response = NoResponse

\* Answer the pending request: out is what the handler produced, outcome
\* what the provider did for the call, recorded only when a call was made.
Serve(outcome, out) ==
    /\ request' = request
    /\ provider' = IF out.calls = <<>> THEN <<>> ELSE <<outcome>>
    /\ response' = out.response
    /\ log' = out.log
    /\ calls' = out.calls

Index ==
    /\ Pending
    /\ dispatch(request) = "index"
    /\ \E rendered \in BOOLEAN : Serve(<<>>, index(rendered))

Upload ==
    /\ Pending
    /\ dispatch(request) = "upload"
    /\ \E outcome \in UploadOutcomes : Serve(outcome, upload(request, outcome))

ListImages ==
    /\ Pending
    /\ dispatch(request) = "list_images"
    /\ \E outcome \in ListOutcomes : Serve(outcome, list_images(outcome))

DeleteImage ==
    /\ Pending
    /\ dispatch(request) = "delete_image"
    /\ \E outcome \in DestroyOutcomes :
           Serve(outcome, delete_image(Tail(request.path), outcome))

RouteNotFound ==
    /\ Pending
    /\ dispatch(request) = "not_found"
    /\ Serve(<<>>, not_found(NotFound))

MethodNotAllowed ==
    /\ Pending
    /\ dispatch(request) = "method_not_allowed"
    /\ Serve(<<>>, method_not_allowed(request.method))

Next ==
    \/ Index
    \/ Upload
    \/ ListImages
    \/ DeleteImage
    \/ RouteNotFound
    \/ MethodNotAllowed

Spec == Init /\ [][Next]_vars

(***************************************************************************)
(* Properties.                                                             *)
(***************************************************************************)
Responded == response.status # 0

IsUploadRequest == request.method = "POST" /\ request.path = <<"upload">>

IsListRequest == request.method = "GET" /\ request.path = <<"list">>

IsDeleteRequest ==
    request.method = "DELETE" /\ Len(request.path) >= 2 /\ request.path[1] = "delete"

WithinLimit == request.content_length <= MAX_CONTENT_LENGTH

IsErrorBody == response.mimetype = "application/json" /\ DOMAIN response.body = {"error"}

IsSuccessBody ==
    /\ response.mimetype = "application/json"
    /\ "success" \in DOMAIN response.body
    /\ response.body["success"] = TRUE

\* f has a last '.', and the text after it, lowercased, is an allowed extension.
HasAllowedExtension(f) ==
    \E i \in 1..Len(f) :
        /\ f[i] = "."
        /\ \A j \in (i + 1)..Len(f) : f[j] # "."
        /\ lower(SubSeq(f, i + 1, Len(f))) \in
               { <<"p","n","g">>, <<"j","p","g">>, <<"j","p","e","g">>,
                 <<"g","i","f">>, <<"w","e","b","p">> }

HasFile == "file" \in DOMAIN request.files

ValidUpload ==
    /\ HasFile
    /\ request.files["file"].filename # <<>>
    /\ HasAllowedExtension(request.files["file"].filename)

ProviderReturned == provider # <<>> /\ ~provider[1].raises

ProviderRaised == provider # <<>> /\ provider[1].raises

\* C1: an upload within the size limit whose file field is missing, whose
\* filename is empty, has no '.', or has an extension outside the allowed
\* set is answered 400 with an {error} body, and the provider is not called.
C1_InvalidUploadRejected ==
    (Responded /\ IsUploadRequest /\ WithinLimit /\ ~ValidUpload)
        => /\ response.status = 400
           /\ IsErrorBody
           /\ calls = <<>>

C1_Witness ==
    /\ Responded /\ IsUploadRequest /\ WithinLimit /\ HasFile
    /\ request.files["file"].filename = <<"d","o","c","u","m","e","n","t",".","p","d","f">>
    /\ response.status = 400
    /\ calls = <<>>

\* C2: an upload whose body is larger than 16 MiB is answered 413, never
\* 400 or 500, whatever its filename, and no handler logic runs.
C2_OversizedUploadIs413 ==
    (Responded /\ IsUploadRequest /\ ~WithinLimit)
        => /\ response.status = 413
           /\ log = <<>>
           /\ calls = <<>>

\* C3: when destroy returns without raising, the delete is answered 200
\* with success true if and only if the result status is "ok"; any other
\* status, or none, is answered 400 with an {error} body.
C3_DeleteStatus ==
    (Responded /\ IsDeleteRequest /\ ProviderReturned)
        => LET result == provider[1].value
               ok == "result" \in DOMAIN result /\ result["result"] = "ok"
           IN  /\ ok => response.status = 200 /\ IsSuccessBody
               /\ ~ok => response.status = 400 /\ IsErrorBody

C3_Witness ==
    /\ Responded /\ IsDeleteRequest /\ ProviderReturned
    /\ request.path = <<"delete", "capturas", "xyz123">>
    /\ provider[1].value = [result |-> "not found"]
    /\ response.status = 400

\* C4: a valid upload for which the provider returns secure_url, public_id
\* and created_at is answered 200 with success true and with url, public_id
\* and created_at equal to the provider's values.
C4_UploadResultVerbatim ==
    (Responded /\ IsUploadRequest /\ WithinLimit /\ ValidUpload /\ ProviderReturned
        /\ {"secure_url", "public_id", "created_at"} \subseteq DOMAIN provider[1].value)
        => LET result == provider[1].value
           IN  /\ response.status = 200
               /\ IsSuccessBody
               /\ DOMAIN response.body = {"success", "url", "public_id", "created_at"}
               /\ response.body["url"] = result["secure_url"]
               /\ response.body["public_id"] = result["public_id"]
               /\ response.body["created_at"] = result["created_at"]

C4_Witness ==
    /\ Responded /\ IsUploadRequest /\ ProviderReturned
    /\ request.files["file"].filename = <<"p","h","o","t","o",".","J","P","G">>
    /\ response.status = 200
    /\ response.body["url"] = "https://res.cloudinary.com/demo/image/upload/capturas/b.jpg"
    /\ response.body["public_id"] = "capturas/a"

\* C5: in a successful listing, total is the number of images, which is the
\* number of resources the provider returned, in the same order; each image
\* carries the resource's secure_url and public_id, and its created_at and
\* format, or the empty string where the resource has none.
C5_ListProjection ==
    (Responded /\ IsListRequest /\ response.status = 200)
        => /\ ProviderReturned
           /\ "resources" \in DOMAIN provider[1].value
           /\ LET rs == provider[1].value["resources"]
                  images == response.body["images"]
              IN  /\ response.body["total"] = Len(images)
                  /\ Len(images) = Len(rs)
                  /\ \A i \in 1..Len(rs) :
                        /\ "secure_url" \in DOMAIN rs[i]
                        /\ "public_id" \in DOMAIN rs[i]
                        /\ images[i]["url"] = rs[i]["secure_url"]
                        /\ images[i]["public_id"] = rs[i]["public_id"]
                        /\ images[i]["created_at"] =
                              (IF "created_at" \in DOMAIN rs[i] THEN rs[i]["created_at"] ELSE "")
                        /\ images[i]["format"] =
                              (IF "format" \in DOMAIN rs[i] THEN rs[i]["format"] ELSE "")

C5_Witness ==
    /\ Responded /\ IsListRequest /\ response.status = 200
    /\ response.body["total"] = 2
    /\ response.body["images"][1]["created_at"] = ""
    /\ response.body["images"][2]["format"] = "png"
    /\ response.body["images"][1]["url"] # response.body["images"][2]["url"]

\* The keys a provider result lacks: for an upload the keys of the result,
\* for a listing "resources" or a key of one of the resources.
MissingKeys ==
    IF ~ProviderReturned THEN {}
    ELSE LET v == provider[1].value
         IN  IF IsUploadRequest
             THEN {"secure_url", "public_id", "created_at"} \ DOMAIN v
             ELSE IF IsListRequest
             THEN IF "resources" \notin DOMAIN v THEN {"resources"}
                  ELSE UNION { {"secure_url", "public_id"} \ DOMAIN v["resources"][i] :
                                 i \in 1..Len(v["resources"]) }
             ELSE {}

\* C6: in upload, list and delete, when the provider call raises or returns
\* a malformed result, the answer is 500 with body {error: message of the
\* failure}, and never a 200 success.
C6_ProviderFailureIs500 ==
    (Responded /\ (IsUploadRequest \/ IsListRequest \/ IsDeleteRequest)
        /\ (ProviderRaised \/ MissingKeys # {}))
        => /\ response.status = 500
           /\ IsErrorBody
           /\ ProviderRaised => response.body["error"] = <<provider[1].exc.args[1]>>
           /\ ~ProviderRaised =>
                 \E k \in MissingKeys : response.body["error"] = <<"'", k, "'">>

C6_Witness ==
    /\ Responded /\ IsListRequest /\ ProviderReturned
    /\ "resources" \in DOMAIN provider[1].value
    /\ Len(provider[1].value["resources"]) = 2
    /\ MissingKeys = {"public_id"}
    /\ response.status = 500

\* C7: every response other than a success is a JSON {error} body with a
\* status in {400, 404, 413, 500}, and a body with success true is only
\* sent with status 200.
C7_UniformErrors ==
    Responded
        => /\ response.status # 200 =>
                 IsErrorBody /\ response.status \in {400, 404, 413, 500}
           /\ IsSuccessBody => response.status = 200

\* C8: a request makes at most one provider call; a valid upload makes
\* exactly one upload call with folder "capturas" and resource_type "auto",
\* list and delete exactly one call each, a rejected upload none, and a
\* failed call is not attempted again.
C8_SingleProviderCall ==
    Responded
        => /\ Len(calls) <= 1
           /\ (IsUploadRequest /\ WithinLimit /\ ValidUpload) =>
                 /\ Len(calls) = 1
                 /\ calls[1].op = "cloudinary.uploader.upload"
                 /\ calls[1].folder = "capturas"
                 /\ calls[1].resource_type = "auto"
           /\ (IsUploadRequest /\ ~(WithinLimit /\ ValidUpload)) => calls = <<>>
           /\ IsListRequest =>
                 Len(calls) = 1 /\ calls[1].op = "cloudinary.api.resources"
           /\ IsDeleteRequest =>
                 /\ Len(calls) = 1
                 /\ calls[1].op = "cloudinary.uploader.destroy"
                 /\ calls[1].public_id = Tail(request.path)
           /\ ~(IsUploadRequest \/ IsListRequest \/ IsDeleteRequest) => calls = <<>>

C8_Witness ==
    /\ Responded /\ IsUploadRequest /\ ProviderRaised
    /\ request.files["file"].filename = <<"p","h","o","t","o",".","J","P","G">>
    /\ response.status = 500
    /\ Len(calls) = 1

HasErrorLogEntry == \E i \in 1..Len(log) : log[i].level = "ERROR"

\* C9 as stated: every request answered 400, 404, 413 or 500 emits an
\* error log entry.
C9_AllErrorsLogged ==
    (Responded /\ response.status \in {400, 404, 413, 500}) => HasErrorLogEntry

\* C9 as amended: every request answered 500 emits an error log entry, and
\* it is the last entry before the response.
C9_ServerErrorsLogged ==
    (Responded /\ response.status = 500)
        => log # <<>> /\ log[Len(log)].level = "ERROR"

C9_Witness ==
    /\ Responded /\ IsUploadRequest /\ ProviderRaised
    /\ response.status = 500
    /\ log = <<error(<<"Error al subir imagen: ", "Connection timed out">>)>>

\* C10: an upload that reaches the provider emits exactly one log entry,
\* the success entry if and only if the answer is 200, and no success
\* entry when the answer is an error.
C10_OneUploadLogEntry ==
    (Responded /\ IsUploadRequest /\ calls # <<>>)
        => /\ Len(log) = 1
           /\ log[1].level = "INFO" <=> response.status = 200
           /\ response.status # 200 => \A i \in 1..Len(log) : log[i].level # "INFO"

====
